---- MODULE Spec2Model ----
(***************************************************************************)
(* Pattern Visualizer API (server/index.js, server/sql/001_create_presets  *)
(* .sql): the Express handlers over the users, patterns and presets        *)
(* tables.  Every handler is an async function: each `await pool.query`    *)
(* is one atomic statement of the relational store, and handlers of        *)
(* different requests interleave between their statements.  A request      *)
(* occupies a slot of `req` from its arrival to its response; the response *)
(* it sends is recorded in `last`.                                         *)
(*                                                                         *)
(* The browser application (src/pages/login.tsx, src/App.tsx): the login   *)
(* page, the visualizer page and the texture effect, each with its own     *)
(* specification.  An async handler runs from one `await fetch` to the     *)
(* next in one step, and the responses it gets are inputs.                 *)
(***************************************************************************)
EXTENDS Integers, Sequences, FiniteSets, TLC

\* ---------------------------------------------------------------- bounds
MaxReqs == 2        \* requests in flight at once
MaxOps == 3         \* requests received in one run
MaxPresets == 3     \* preset ids ever handed out
MaxPatterns == 2    \* files ever stored
MaxSubmits == 2     \* login forms submitted in one run
MaxCalls == 4       \* visualizer handlers started in one run
MaxLoads == 3       \* texture loads started in one run

\* ------------------------------------------------------- program constants
MaxSlugAttempts == 5   \* generateUniqueShareSlug: attempt < 5
BcryptRounds == 10     \* bcrypt.hash(password, 10)

\* ----------------------------------------------------------- input values
Reqs == 1..MaxReqs
NULL == "NULL"                       \* SQL NULL / JS null / undefined
Emails == {"a@x", "b@x"}
EmailInputs == Emails \cup {""}      \* "" is falsy: `!email`
Passwords == {"pw1", "pw2"}
PasswordInputs == Passwords \cup {""}
NewPasswordInputs == {"pw2", ""}      \* passwords of the signups of one run
Salts == {"saltA", "saltB"}            \* bcrypt salts
NewSalts == {"saltB"}                 \* salts drawn by signups of one run
Slugs == {"0a1b2c3d4e", "f9e8d7c6b5"}  \* 10 hex characters

\* A value of the JSON body that a string field is read from: its typeof and,
\* for a string, its text.
JsString(s) == [type |-> "string", s |-> s]
JsNumber(s) == [type |-> "number", s |-> s]
JsUndefined == [type |-> "undefined", s |-> NULL]
NameInputs ==
    {JsString(n) : n \in {"Cheetah Large", " Cheetah Large ", "   ", ""}} \cup
    {JsNumber("42"), JsUndefined}
PatternIdInputs ==
    {JsString(n) : n \in {"cheetah", "remote-1", "remote-x", "   "}} \cup
    {JsNumber("1")}

\* A value that settings is read from: its kind and, for an object, its
\* members <<key, value>> in the order of the JSON text.
JsObject(members) == [type |-> "object", members |-> members]
JsArray == [type |-> "array", members |-> <<>>]
JsNull == [type |-> "null", members |-> <<>>]
JsText == [type |-> "string", members |-> <<>>]       \* a non-empty string
NoSettings == [type |-> "undefined", members |-> <<>>]
SettingsInputs ==
    {JsObject(<<<<"transparentBg", "true">>, <<"scale", "2.5">>>>),
     JsArray, JsNull, JsText, NoSettings}
Mimetypes == {"image/png", "text/plain"}
NoFile == [present |-> FALSE, mimetype |-> NULL, originalname |-> NULL]
FileInputs ==
    {NoFile} \cup
    {[present |-> TRUE, mimetype |-> m, originalname |-> "swatch"] : m \in Mimetypes}
MissingId == 0                       \* a well-formed id that no row ever has

\* ----------------------------------------------------------------- tokens
JWT_SECRET == "JWT_SECRET"           \* process.env.JWT_SECRET

\* A token: its payload, the key that signed it, and whether its 7 days are over.
NoToken == [userId |-> 0, email |-> NULL, key |-> NULL, expired |-> FALSE]

\* jwt.sign({ userId, email }, JWT_SECRET, { expiresIn: '7d' })
JwtSign(userId, email) ==
    [userId |-> userId, email |-> email, key |-> JWT_SECRET, expired |-> FALSE]

\* jwt.verify(token, JWT_SECRET, ...): no err.
JwtVerifyIgnoringExpiry(token) == token.key = JWT_SECRET

JwtVerify(token) == token.key = JWT_SECRET /\ ~token.expired

\* Tokens the server never issued, or issued more than 7 days ago.
MalformedToken == [NoToken EXCEPT !.key = "not a jwt"]
ForgedToken == [JwtSign(1, "a@x") EXCEPT !.key = "another secret"]
ExpiredToken == [JwtSign(1, "a@x") EXCEPT !.expired = TRUE]

\* The Authorization header: the number of its space-separated parts (0: no
\* header) and its second part.
NoAuthHeader == [parts |-> 0, token |-> NoToken]
SchemeOnlyHeader == [parts |-> 1, token |-> NoToken]       \* "Bearer"
BearerHeader(token) == [parts |-> 2, token |-> token]      \* "Bearer <token>"
BadAuthHeader == BearerHeader(MalformedToken)

\* ------------------------------------------------------------ responses
\* res.status(s).json(body): the fields of every body the handlers send.
NoPresetBody ==
    [id |-> MissingId, name |-> NULL, patternId |-> NULL, settings |-> NoSettings,
     isPublic |-> FALSE, shareSlug |-> NULL, createdAt |-> 0]

NoFilename == <<0, NULL>>

Response(status, message) ==
    [status |-> status, message |-> message, ok |-> FALSE, shareSlug |-> NULL,
     token |-> NoToken, id |-> 0, email |-> NULL, preset |-> NoPresetBody,
     filename |-> NoFilename, patternUrl |-> NoFilename, list |-> <<>>]

NoResponse == Response(0, NULL)

\* ------------------------------------------------------------ bcrypt
\* A salted one-way digest: the digest binds the salt and the password.
Digest(salt, password) == <<salt, password, BcryptRounds>>

BcryptHash(password, salt) == [salt |-> salt, digest |-> Digest(salt, password)]

BcryptCompareNever(password, hash) == FALSE

BcryptCompare(password, hash) == Digest(hash.salt, password) = hash.digest

\* ------------------------------------------------------------ requests
IdleReq ==
    [pc |-> "idle", kind |-> "none", uid |-> 0, email |-> NULL, password |-> NULL,
     id |-> MissingId, slug |-> NULL, attempt |-> 0, name |-> NULL,
     patternId |-> NULL, settings |-> NoSettings, nameType |-> "undefined",
     patternIdType |-> "undefined", filename |-> NoFilename,
     mimetype |-> NULL, own |-> FALSE, seenSlug |-> NULL, seenPublic |-> FALSE,
     afterCreated |-> FALSE, hdr |-> NoAuthHeader]

VARIABLES
    users,        \* users table: id -> [email, password_hash]
    patterns,     \* patterns table: id -> [user_id, filename]
    presets,      \* presets table: id -> row
    nextPresetId, \* ids handed out by gen_random_uuid(): never reused
    files,        \* the uploads directory
    tokens,       \* tokens issued by login and still held by clients
    req,          \* requests in flight, by slot; own, seenSlug, seenPublic and
                  \* afterCreated record what held when the request arrived
    last,         \* the request that was answered last, with its response
    nOps,         \* requests received so far
    sharedSlug,   \* per preset: the shareSlug of its latest 200 share response
    created,      \* emails for which a signup has returned 201
    signedUp,     \* the signups answered 201: [email, password, id]
    deleted,      \* per preset that a delete removed: the share_slug it had
    submitted     \* per preset: the patternId and settings of its create request

\* The browser application (src/pages, src/App.tsx, src/constants).
VARIABLES
    authToken,           \* localStorage 'pv:authToken', NULL when absent
    location,            \* the router's current path
    locationState,       \* location.state.from.pathname, NULL when absent
    mode,                \* LoginPage: 'login' | 'signup'
    isSubmitting,        \* LoginPage
    loginError,          \* LoginPage: error
    submit,              \* LoginPage.handleSubmit: its position and its mode
    fetched,             \* LoginPage: the request that ended last, and how
    nSubmits,            \* LoginPage: forms submitted so far
    pagePatterns,        \* VisualizerPage: ids of `patterns`
    selectedPatternId,   \* VisualizerPage
    pagePresets,         \* VisualizerPage: `presets`
    activePresetAction,  \* VisualizerPage
    calls,               \* VisualizerPage: handlers waiting for their fetch
    nCalls,              \* VisualizerPage: handlers started so far
    answered,            \* VisualizerPage: the handler run that ended last
    selectedFile,        \* texture effect: the file of the selected pattern
    texture,             \* texture effect: the load whose texture is current
    loads,               \* texture effect: loader.load calls, by number
    disposed             \* texture effect: the loads whose texture was disposed

db == <<users, patterns, presets, nextPresetId, files>>

ghost == <<sharedSlug, created, signedUp, deleted, submitted>>

storage == <<authToken, location, locationState>>

loginPage == <<mode, isSubmitting, loginError, submit, fetched, nSubmits>>

visualizerPage == <<pagePatterns, selectedPatternId, pagePresets, activePresetAction,
                    calls, nCalls, answered>>

textureEffect == <<selectedFile, texture, loads, disposed>>

browser == <<storage, loginPage, visualizerPage, textureEffect>>

server == <<db, tokens, req, last, nOps, ghost>>

vars == <<server, browser>>

\* --------------------------------------------------------------- helpers
Falsy(v) == v = "" \/ v = NULL

\* SQL `column = $1`: never true of a NULL column.
SqlEq(column, value) == column # NULL /\ column = value

\* result.rows[0]: any of the rows, or 0 when there is none.
FirstRows(rows) == IF rows = {} THEN {0} ELSE rows

Busy(r) == req[r].pc # "idle"

\* A request arrives: it takes the lowest free slot.
Arrive(r) ==
    /\ ~Busy(r)
    /\ \A q \in Reqs : q < r => Busy(q)
    /\ nOps < MaxOps
    /\ nOps' = nOps + 1

\* The handler of slot r sends `resp` for request `rq` and ends.
Answer(r, rq, resp) ==
    /\ req' = [req EXCEPT ![r] = IdleReq]
    /\ last' = [rq |-> rq, resp |-> resp]

\* The handler of slot r goes on to its next statement.
Continue(r, rq) ==
    /\ req' = [req EXCEPT ![r] = rq]
    /\ UNCHANGED last

\* ---------------------------------------------------------- authenticateToken
Headers ==
    {NoAuthHeader, SchemeOnlyHeader, BadAuthHeader, BearerHeader(ForgedToken),
     BearerHeader(ExpiredToken)} \cup {BearerHeader(t) : t \in tokens}

\* authHeader && authHeader.split(' ')[1]
HeaderToken(hdr) == IF hdr.parts >= 2 THEN hdr.token ELSE NoToken

\* 0: next() is called with req.user = the token's payload.
AuthStatus(hdr) ==
    IF HeaderToken(hdr) = NoToken THEN 401
    ELSE IF ~JwtVerify(HeaderToken(hdr)) THEN 403
    ELSE 0

\* req.user: set only when jwt.verify gave no err.
ReqUser(hdr) == IF AuthStatus(hdr) = 0 THEN HeaderToken(hdr) ELSE NoToken

\* A request that authenticateToken answers is read no further: its other
\* inputs are left at their defaults.
Unread(hdr, given, default) == AuthStatus(hdr) # 0 => given = default

AuthFailure(hdr) ==
    IF AuthStatus(hdr) = 401 THEN Response(401, "Missing authorization token.")
    ELSE Response(403, "Invalid or expired token.")

\* ------------------------------------------------------------------ signup
\* The users table is created outside this repository; the data model gives
\* it a unique email.
UsersEmailUnique == TRUE

SelectUsersByEmail(U, email) == {u \in DOMAIN U : SqlEq(U[u].email, email)}

SignupExistingUserSkipped(U, email) == FALSE

SignupExistingUser(U, email) == SelectUsersByEmail(U, email) # {}

\* The request arrives and its SELECT runs.
Signup(r) ==
    \E email \in EmailInputs, password \in NewPasswordInputs :
        /\ Arrive(r)
        /\ Falsy(email) => password = ""    \* `!email ||` reads no password
        /\ LET rq == [IdleReq EXCEPT !.kind = "signup", !.pc = "signup_insert",
                                     !.email = email, !.password = password,
                                     !.afterCreated = (email \in created)]
           IN  IF Falsy(email) \/ Falsy(password)
               THEN Answer(r, rq, Response(400, "Email and password are required."))
               ELSE IF SignupExistingUser(users, email)
               THEN Answer(r, rq, Response(409, "User already exists."))
               ELSE Continue(r, rq)
        /\ UNCHANGED <<browser, db, tokens, ghost>>

SignupInsert(r) ==
    /\ req[r].pc = "signup_insert"
    /\ \E salt \in NewSalts :
        LET newId == Cardinality(DOMAIN users) + 1
            row == [email |-> req[r].email,
                    password_hash |-> BcryptHash(req[r].password, salt)]
        IN  IF UsersEmailUnique /\ SelectUsersByEmail(users, req[r].email) # {}
            THEN /\ Answer(r, req[r], Response(500, "Failed to create user."))
                 /\ UNCHANGED <<users, created, signedUp>>
            ELSE /\ users' = users @@ (newId :> row)
                 /\ created' = created \cup {req[r].email}
                 /\ signedUp' = signedUp \cup
                        {[email |-> req[r].email, password |-> req[r].password,
                          id |-> newId]}
                 /\ Answer(r, req[r],
                           [Response(201, NULL) EXCEPT !.id = newId,
                                                       !.email = row.email])
    /\ UNCHANGED <<browser, patterns, presets, nextPresetId, files, tokens, nOps, sharedSlug,
                   deleted, submitted>>

\* ------------------------------------------------------------------- login
LoginUnknownEmail == Response(401, "Invalid credentials.")

LoginWrongPasswordDistinct == Response(401, "Wrong password.")

LoginWrongPassword == Response(401, "Invalid credentials.")

\* The handler's answer when the SELECT returns `row` first (0: no row).
LoginResult(U, row, password) ==
    IF row = 0 THEN LoginUnknownEmail
    ELSE IF ~BcryptCompare(password, U[row].password_hash) THEN LoginWrongPassword
    ELSE [Response(200, NULL) EXCEPT !.token = JwtSign(row, U[row].email)]

Login(r) ==
    \E email \in EmailInputs, password \in PasswordInputs :
        /\ Arrive(r)
        /\ Falsy(email) => password = ""    \* `!email ||` reads no password
        /\ LET rq == [IdleReq EXCEPT !.kind = "login", !.email = email,
                                     !.password = password]
           IN  IF Falsy(email) \/ Falsy(password)
               THEN /\ Answer(r, rq, Response(400, "Email and password are required."))
                    /\ UNCHANGED tokens
               ELSE \E row \in FirstRows(SelectUsersByEmail(users, email)) :
                      LET resp == LoginResult(users, row, password)
                      IN  /\ Answer(r, rq, resp)
                          /\ tokens' = IF resp.status = 200
                                        THEN tokens \cup {resp.token} ELSE tokens
        /\ UNCHANGED <<browser, db, ghost>>

\* ------------------------------------------------------------------ upload
\* fileFilter: file.mimetype.startsWith('image/')
IsImage(mimetype) == mimetype \in {"image/png", "image/jpeg"}

\* storage.filename: `${Date.now()}-${file.originalname.replace(/\s+/g, '_')}`
StoredFilename(now, originalname) == <<now, originalname>>

\* fileFilter rejects with `new Error(...)`, which is no MulterError.
FileFilterError == [multerError |-> FALSE, message |-> "Only image uploads are allowed."]

\* app.use((err, _req, res, _next) => ...): err is always set when it runs.
ErrorHandler(err) ==
    IF err.multerError THEN Response(400, err.message)
    ELSE Response(500, "Internal server error.")

\* app.post(path, authenticateToken, upload.single('pattern'), handler): the
\* middleware run in this order, and upload.single runs only when
\* authenticateToken has called next().
UploadSingleRunsAlways(hdr) == TRUE

UploadSingleRuns(hdr) == AuthStatus(hdr) = 0

\* The request arrives; authenticateToken, then upload.single stores the file.
Upload(r) ==
    \E hdr \in Headers, file \in FileInputs :
        /\ Arrive(r)
        /\ LET rq == [IdleReq EXCEPT !.kind = "upload", !.pc = "upload_insert",
                                     !.uid = ReqUser(hdr).userId, !.hdr = hdr,
                                     !.mimetype = file.mimetype]
               stored == StoredFilename(Cardinality(files) + 1, file.originalname)
               writes == UploadSingleRuns(hdr) /\ file.present /\ IsImage(file.mimetype)
           IN  /\ writes => Cardinality(files) < MaxPatterns
               /\ files' = IF writes THEN files \cup {stored} ELSE files
               /\ IF AuthStatus(hdr) # 0
                  THEN Answer(r, rq, AuthFailure(hdr))
                  ELSE IF ~file.present
                  THEN Answer(r, rq, Response(400, "Pattern file is required."))
                  ELSE IF ~IsImage(file.mimetype)
                  THEN Answer(r, rq, ErrorHandler(FileFilterError))
                  ELSE Continue(r, [rq EXCEPT !.filename = stored])
        /\ UNCHANGED <<browser, users, patterns, presets, nextPresetId, tokens, ghost>>

UploadInsertFailed == Response(500, "Failed to save pattern metadata.")

\* catch (error) { ... }: the handler does not unlink the file it stored.
FilesAfterFailedInsertUnlinked(F, filename) == F \ {filename}

FilesAfterFailedInsert(F, filename) == F

\* INSERT INTO patterns ... RETURNING id, filename, uploaded_at; the store may
\* refuse or fail the statement, which throws.
UploadInsert(r) ==
    /\ req[r].pc = "upload_insert"
    /\ LET newId == Cardinality(DOMAIN patterns) + 1
       IN  \E inserted \in BOOLEAN :
             IF inserted
             THEN /\ patterns' = patterns @@
                       (newId :> [user_id |-> req[r].uid, filename |-> req[r].filename,
                                  uploaded_at |-> newId])
                  /\ Answer(r, req[r], [Response(201, NULL) EXCEPT
                                           !.id = newId, !.filename = req[r].filename])
                  /\ UNCHANGED files
             ELSE /\ Answer(r, req[r], UploadInsertFailed)
                  /\ files' = FilesAfterFailedInsert(files, req[r].filename)
                  /\ UNCHANGED patterns
    /\ UNCHANGED <<browser, users, presets, nextPresetId, tokens, nOps, ghost>>

\* ORDER BY <time> DESC: the ids, the one with the latest time first.
RECURSIVE OldestFirst(_, _)
OldestFirst(at, ids) ==
    IF ids = {} THEN <<>>
    ELSE LET oldest == CHOOSE i \in ids : \A j \in ids : at[i] <= at[j]
         IN  <<oldest>> \o OldestFirst(at, ids \ {oldest})

RECURSIVE NewestFirst(_, _)
NewestFirst(at, ids) ==
    IF ids = {} THEN <<>>
    ELSE LET newest == CHOOSE i \in ids : \A j \in ids : at[j] <= at[i]
         IN  <<newest>> \o NewestFirst(at, ids \ {newest})

\* result.rows.map((row) => ({ id, filename, uploadedAt, url }))
mapPatternRow(id, row) ==
    [id |-> id, filename |-> row.filename, uploadedAt |-> row.uploaded_at,
     url |-> row.filename]

\* GET /api/patterns
ListPatterns(r) ==
    \E hdr \in Headers :
        /\ Arrive(r)
        /\ LET rq == [IdleReq EXCEPT !.kind = "listPatterns", !.hdr = hdr,
                                     !.uid = ReqUser(hdr).userId]
               ids == {n \in DOMAIN patterns : patterns[n].user_id = rq.uid}
               rows == NewestFirst([n \in ids |-> patterns[n].uploaded_at], ids)
           IN  IF AuthStatus(hdr) # 0 THEN Answer(r, rq, AuthFailure(hdr))
               ELSE Answer(r, rq, [Response(200, NULL) EXCEPT !.list =
                       [i \in DOMAIN rows |-> mapPatternRow(rows[i], patterns[rows[i]])]])
        /\ UNCHANGED <<browser, db, tokens, ghost>>

\* ----------------------------------------------------------------- presets
mapPresetRow(id, row) ==
    [id |-> id, name |-> row.name, patternId |-> row.pattern_id,
     settings |-> row.settings, isPublic |-> row.is_public,
     shareSlug |-> row.share_slug, createdAt |-> row.created_at]

\* String.prototype.trim, on the texts of the inputs.
Trim(s) ==
    CASE s = " Cheetah Large " -> "Cheetah Large"
      [] s = "   " -> ""
      [] OTHER -> s

\* typeof value === 'string' && value.trim().length > 0
isNonEmptyStringUntrimmed(value) == value.type = "string" /\ value.s # ""

isNonEmptyString(value) == value.type = "string" /\ Trim(value.s) # ""

\* !settings: of the inputs, null and undefined are falsy.
FalsySettings(settings) == settings.type \in {"null", "undefined"}

\* typeof settings: 'object' also for an array and for null.
TypeOf(settings) ==
    IF settings.type \in {"object", "array", "null"} THEN "object" ELSE settings.type

\* The negation of the condition of line 215.
ValidPresetBody(name, patternId, settings) ==
    /\ isNonEmptyString(name)
    /\ isNonEmptyString(patternId)
    /\ ~FalsySettings(settings)
    /\ TypeOf(settings) = "object"
    /\ settings.type # "array"

\* The values of the fields that the condition of line 215 does not reach.
DefaultName == JsString("Cheetah Large")
DefaultPatternId == JsString("cheetah")
DefaultSettings == JsObject(<<<<"transparentBg", "true">>, <<"scale", "2.5">>>>)

\* jsonb keeps the members of an object in the order of its keys (shorter
\* keys first), not in the order of the text.
JsonbKeyRank(key) == CASE key = "scale" -> 1 [] key = "transparentBg" -> 2

RECURSIVE JsonbInsert(_, _)
JsonbInsert(sorted, member) ==
    IF sorted = <<>> THEN <<member>>
    ELSE IF JsonbKeyRank(member[1]) < JsonbKeyRank(Head(sorted)[1])
    THEN <<member>> \o sorted
    ELSE <<Head(sorted)>> \o JsonbInsert(Tail(sorted), member)

RECURSIVE JsonbSort(_)
JsonbSort(members) ==
    IF members = <<>> THEN <<>>
    ELSE JsonbInsert(JsonbSort(Tail(members)), Head(members))

\* The bodies of the create requests: a field that fails the condition of
\* line 215 comes with the defaults in the other fields, and the name that
\* trim changes with the default patternId.
CreateBodies ==
    {b \in [name : NameInputs, patternId : PatternIdInputs, settings : SettingsInputs] :
        /\ (b.name # DefaultName \/ b.settings # DefaultSettings) =>
               b.patternId = DefaultPatternId
        /\ (b.name # DefaultName \/ ~isNonEmptyString(b.patternId)) =>
               b.settings = DefaultSettings}

DefaultBody ==
    [name |-> DefaultName, patternId |-> DefaultPatternId, settings |-> DefaultSettings]

JsonbEmpty(settings) == JsObject(<<>>)

Jsonb(settings) == JsObject(JsonbSort(settings.members))

\* Ids a client can name: every id handed out so far, and a missing one.
KnownIds == 0..(nextPresetId - 1)

PresetNotFound == Response(404, "Preset not found.")

\* WHERE id = $1 AND user_id = $2
OwnedRowsAnyUser(P, id, uid) == {p \in DOMAIN P : p = id}

OwnedRows(P, id, uid) == {p \in DOMAIN P : p = id /\ P[p].user_id = uid}

\* INSERT INTO presets (user_id, name, pattern_id, settings): the table's
\* defaults give is_public = false, share_slug = NULL and created_at = now().
NewPresetRow(rq, now) ==
    [user_id |-> rq.uid, name |-> Trim(rq.name), pattern_id |-> rq.patternId,
     settings |-> Jsonb(rq.settings), is_public |-> FALSE, share_slug |-> NULL,
     created_at |-> now]

Create(r) ==
    \E hdr \in Headers, body \in CreateBodies :
        /\ Arrive(r)
        /\ Unread(hdr, body, DefaultBody)
        /\ LET name == body.name
               patternId == body.patternId
               settings == body.settings
               rq == [IdleReq EXCEPT !.kind = "create", !.uid = ReqUser(hdr).userId,
                                     !.hdr = hdr, !.name = name.s,
                                     !.nameType = name.type,
                                     !.patternId = patternId.s,
                                     !.patternIdType = patternId.type,
                                     !.settings = settings]
               row == NewPresetRow(rq, nextPresetId)
           IN  IF AuthStatus(hdr) # 0
               THEN /\ Answer(r, rq, AuthFailure(hdr))
                    /\ UNCHANGED <<presets, nextPresetId, sharedSlug, submitted>>
               ELSE IF ~ValidPresetBody(name, patternId, settings)
               THEN /\ Answer(r, rq, Response(400,
                             "Preset name, patternId, and settings are required."))
                    /\ UNCHANGED <<presets, nextPresetId, sharedSlug, submitted>>
               ELSE /\ nextPresetId <= MaxPresets
                    /\ presets' = presets @@ (nextPresetId :> row)
                    /\ nextPresetId' = nextPresetId + 1
                    /\ sharedSlug' = sharedSlug @@ (nextPresetId :> NULL)
                    /\ submitted' = submitted @@
                          (nextPresetId :> [patternId |-> rq.patternId,
                                            settings |-> rq.settings])
                    /\ Answer(r, rq, [Response(201, NULL) EXCEPT
                                         !.preset = mapPresetRow(nextPresetId, row)])
        /\ UNCHANGED <<browser, users, patterns, files, tokens, created, signedUp, deleted>>

\* GET /api/presets
ListPresets(r) ==
    \E hdr \in Headers :
        /\ Arrive(r)
        /\ LET rq == [IdleReq EXCEPT !.kind = "listPresets", !.hdr = hdr,
                                     !.uid = ReqUser(hdr).userId]
               ids == {p \in DOMAIN presets : presets[p].user_id = rq.uid}
               rows == NewestFirst([p \in ids |-> presets[p].created_at], ids)
           IN  IF AuthStatus(hdr) # 0 THEN Answer(r, rq, AuthFailure(hdr))
               ELSE Answer(r, rq, [Response(200, NULL) EXCEPT !.list =
                       [i \in DOMAIN rows |-> mapPresetRow(rows[i], presets[rows[i]])]])
        /\ UNCHANGED <<browser, db, tokens, ghost>>

\* A request that names a preset id, as authenticateToken leaves it.  own: the
\* caller owns the preset; then seenSlug is the shareSlug that the latest 200
\* share response for it carried, and seenPublic its is_public.
OnPreset(kind, hdr, id) ==
    LET uid == ReqUser(hdr).userId
        own == OwnedRows(presets, id, uid) # {}
    IN  [IdleReq EXCEPT !.kind = kind, !.id = id, !.uid = uid, !.hdr = hdr, !.own = own,
                        !.seenSlug = IF own THEN sharedSlug[id] ELSE NULL,
                        !.seenPublic = own /\ presets[id].is_public]

\* GET /api/presets/:id
GetResult(P, id, uid) ==
    LET rows == OwnedRows(P, id, uid)
    IN  IF rows = {} THEN PresetNotFound
        ELSE [Response(200, NULL) EXCEPT !.preset = mapPresetRow(id, P[id])]

Get(r) ==
    \E hdr \in Headers, id \in KnownIds :
        /\ Arrive(r)
        /\ Unread(hdr, id, MissingId)
        /\ LET rq == OnPreset("get", hdr, id)
           IN  IF AuthStatus(hdr) # 0 THEN Answer(r, rq, AuthFailure(hdr))
               ELSE Answer(r, rq, GetResult(presets, id, rq.uid))
        /\ UNCHANGED <<browser, db, tokens, ghost>>

\* DELETE /api/presets/:id: the table after the statement, and the answer.
DeleteResultKeepsRow(P, id, uid) ==
    [presets |-> P,
     resp |-> IF OwnedRows(P, id, uid) = {} THEN PresetNotFound
              ELSE [Response(200, NULL) EXCEPT !.ok = TRUE]]

DeleteResult(P, id, uid) ==
    LET rows == OwnedRows(P, id, uid)
    IN  IF rows = {} THEN [presets |-> P, resp |-> PresetNotFound]
        ELSE [presets |-> [p \in DOMAIN P \ rows |-> P[p]],
              resp |-> [Response(200, NULL) EXCEPT !.ok = TRUE]]

Delete(r) ==
    \E hdr \in Headers, id \in KnownIds :
        /\ Arrive(r)
        /\ Unread(hdr, id, MissingId)
        /\ LET rq == OnPreset("delete", hdr, id)
               res == DeleteResult(presets, id, rq.uid)
           IN  IF AuthStatus(hdr) # 0
               THEN /\ Answer(r, rq, AuthFailure(hdr))
                    /\ UNCHANGED <<presets, sharedSlug, deleted, submitted>>
               ELSE /\ presets' = res.presets
                    /\ sharedSlug' = [p \in DOMAIN res.presets |-> sharedSlug[p]]
                    /\ submitted' = [p \in DOMAIN res.presets |-> submitted[p]]
                    /\ deleted' = IF res.resp.status = 200
                                  THEN (id :> presets[id].share_slug) @@ deleted
                                  ELSE deleted
                    /\ Answer(r, rq, res.resp)
        /\ UNCHANGED <<browser, users, patterns, nextPresetId, files, tokens, created, signedUp>>

\* POST /api/presets/:id/unshare
UnshareResultClearsSlug(P, id, uid) ==
    LET rows == OwnedRows(P, id, uid)
    IN  IF rows = {} THEN [presets |-> P, resp |-> PresetNotFound]
        ELSE [presets |-> [P EXCEPT ![id].is_public = FALSE, ![id].share_slug = NULL],
              resp |-> [Response(200, NULL) EXCEPT !.ok = TRUE]]

UnshareResult(P, id, uid) ==
    LET rows == OwnedRows(P, id, uid)
    IN  IF rows = {} THEN [presets |-> P, resp |-> PresetNotFound]
        ELSE [presets |-> [P EXCEPT ![id].is_public = FALSE],
              resp |-> [Response(200, NULL) EXCEPT !.ok = TRUE]]

Unshare(r) ==
    \E hdr \in Headers, id \in KnownIds :
        /\ Arrive(r)
        /\ Unread(hdr, id, MissingId)
        /\ LET rq == OnPreset("unshare", hdr, id)
               res == UnshareResult(presets, id, rq.uid)
           IN  IF AuthStatus(hdr) # 0
               THEN Answer(r, rq, AuthFailure(hdr)) /\ UNCHANGED presets
               ELSE presets' = res.presets /\ Answer(r, rq, res.resp)
        /\ UNCHANGED <<browser, users, patterns, nextPresetId, files, tokens, ghost>>

\* ------------------------------------------------------------------- share
\* SELECT ... FROM presets WHERE share_slug = $1
SlugRows(P, slug) == {p \in DOMAIN P : SqlEq(P[p].share_slug, slug)}

\* share_slug text unique / presets_share_slug_idx: the UPDATE of row `id` is
\* refused when another row holds the slug.
SlugConflictUnchecked(P, id, slug) == FALSE

SlugConflict(P, id, slug) == SlugRows(P, slug) \ {id} # {}

ShareFailed == Response(500, "Failed to share preset.")

\* existing.rows[0].share_slug || (await generateUniqueShareSlug())
ReusesSlugNever(slug) == FALSE

ReusesSlugAlways(slug) == TRUE

ReusesSlug(slug) == ~Falsy(slug)

\* SELECT share_slug ... WHERE id = $1 AND user_id = $2: the answer, if the
\* handler ends here.
ShareSelectResult(P, id, uid) ==
    IF OwnedRows(P, id, uid) = {} THEN PresetNotFound ELSE NoResponse

\* The request arrives and its SELECT share_slug runs.
Share(r) ==
    \E hdr \in Headers, id \in KnownIds :
        /\ Arrive(r)
        /\ Unread(hdr, id, MissingId)
        /\ LET rq == OnPreset("share", hdr, id)
           IN  IF AuthStatus(hdr) # 0 THEN Answer(r, rq, AuthFailure(hdr))
               ELSE IF ShareSelectResult(presets, id, rq.uid) # NoResponse
               THEN Answer(r, rq, ShareSelectResult(presets, id, rq.uid))
               ELSE IF ReusesSlug(presets[id].share_slug)
               THEN Continue(r, [rq EXCEPT !.pc = "share_update",
                                           !.slug = presets[id].share_slug])
               ELSE Continue(r, [rq EXCEPT !.pc = "slug_check", !.attempt = 0])
        /\ UNCHANGED <<browser, db, tokens, ghost>>

\* for (let attempt = 0; attempt < 5; attempt += 1): the loop's condition.
SlugAttemptsLeftOneMore(attempt) == attempt <= MaxSlugAttempts

SlugAttemptsLeft(attempt) == attempt < MaxSlugAttempts

\* generateUniqueShareSlug: one pass of the loop, the random slug and its SELECT.
SlugCheck(r) ==
    /\ req[r].pc = "slug_check"
    /\ \E slug \in Slugs :
        IF SlugRows(presets, slug) = {}
        THEN Continue(r, [req[r] EXCEPT !.pc = "share_update", !.slug = slug])
        ELSE IF SlugAttemptsLeft(req[r].attempt + 1)
        THEN Continue(r, [req[r] EXCEPT !.attempt = @ + 1])
        ELSE Answer(r, [req[r] EXCEPT !.attempt = @ + 1], ShareFailed)
    /\ UNCHANGED <<browser, db, tokens, nOps, ghost>>

\* UPDATE presets SET is_public = true, share_slug = $1 WHERE id = $2 AND
\* user_id = $3 RETURNING share_slug; then updated.rows[0].share_slug.
ShareUpdate(r) ==
    /\ req[r].pc = "share_update"
    /\ LET id == req[r].id
           rows == OwnedRows(presets, id, req[r].uid)
       IN  IF rows = {} \/ SlugConflict(presets, id, req[r].slug)
           THEN /\ Answer(r, req[r], ShareFailed)
                /\ UNCHANGED <<presets, sharedSlug>>
           ELSE /\ presets' = [presets EXCEPT ![id].is_public = TRUE,
                                              ![id].share_slug = req[r].slug]
                /\ sharedSlug' = [sharedSlug EXCEPT ![id] = req[r].slug]
                /\ Answer(r, req[r], [Response(200, NULL) EXCEPT
                                         !.shareSlug = presets'[id].share_slug])
    /\ UNCHANGED <<browser, users, patterns, nextPresetId, files, tokens, nOps, created,
                   signedUp, deleted, submitted>>

\* ----------------------------------------------------------------- resolve
SharedNotFound == Response(404, "Shared preset not found.")

\* result.rows.length === 0 || !result.rows[0].is_public, negated; `first` is
\* the row the store returns first.
ResolvableIgnoringPublic(P, rows, first) == rows # {}

Resolvable(P, rows, first) == rows # {} /\ P[first].is_public

\* preset.pattern_id.startsWith('remote-'), Number(pattern_id.replace('remote-', ''))
StartsWithRemote(patternId) == patternId \in {"remote-1", "remote-2", "remote-x"}

NaN == -1

\* Number(...) of the text after the prefix; 0 stands for a text without it.
RemotePatternNumberFirst(patternId) == IF StartsWithRemote(patternId) THEN 1 ELSE 0

RemotePatternNumber(patternId) ==
    IF patternId = "remote-1" THEN 1
    ELSE IF patternId = "remote-2" THEN 2
    ELSE IF patternId = "remote-x" THEN NaN
    ELSE 0

\* The handler looks the pattern up.
QueriesPatternAlways(patternId) == TRUE

QueriesPattern(patternId) ==
    StartsWithRemote(patternId) /\ RemotePatternNumber(patternId) # NaN

SlugInputs == Slugs \cup {NULL}


SharedBody(row, url) ==
    [Response(200, NULL) EXCEPT
        !.preset = [NoPresetBody EXCEPT !.name = row.name, !.patternId = row.pattern_id,
                                        !.settings = row.settings],
        !.patternUrl = url]

\* The request arrives and its SELECT on presets runs.
Resolve(r) ==
    \E slug \in SlugInputs :
        /\ Arrive(r)
        /\ LET rq == [IdleReq EXCEPT !.kind = "resolve", !.slug = slug]
               rows == SlugRows(presets, slug)
           IN  \E p \in FirstRows(rows) :
                 IF ~Resolvable(presets, rows, p)
                 THEN Answer(r, rq, SharedNotFound)
                 ELSE IF QueriesPattern(presets[p].pattern_id)
                 THEN Continue(r, [rq EXCEPT !.pc = "resolve_pattern",
                                             !.name = presets[p].name,
                                             !.patternId = presets[p].pattern_id,
                                             !.settings = presets[p].settings])
                 ELSE Answer(r, rq, SharedBody(presets[p], NoFilename))
        /\ UNCHANGED <<browser, db, tokens, ghost>>

\* SELECT filename FROM patterns WHERE id = $1
ResolvePattern(r) ==
    /\ req[r].pc = "resolve_pattern"
    /\ LET n == RemotePatternNumber(req[r].patternId)
           row == [name |-> req[r].name, pattern_id |-> req[r].patternId,
                   settings |-> req[r].settings]
       IN  Answer(r, req[r],
                  SharedBody(row, IF n \in DOMAIN patterns THEN patterns[n].filename
                                  ELSE NoFilename))
    /\ UNCHANGED <<browser, db, tokens, nOps, ghost>>

\* ================================================================ browser
\* The React application.  An async handler runs to its next `await fetch`
\* in one step; the fetch ends in a later step, which runs the handler to its
\* end or to its next fetch.  State setters and the `finally` blocks are part
\* of the step that reaches them.

\* handleLogout: clearAuthToken(); navigate('/login', { replace: true })
handleLogout ==
    /\ authToken' = NULL
    /\ location' = "/login"
    /\ UNCHANGED locationState

\* ------------------------------------------------------------- LoginPage
\* What a fetch ends in: it rejects, or it resolves to a response with `ok`
\* and a body that is JSON or not, with a message and a token or without.
FetchRejected ==
    [rejected |-> TRUE, ok |-> FALSE, json |-> FALSE, message |-> NULL, token |-> NULL]

HttpResponse(ok, json, message, token) ==
    [rejected |-> FALSE, ok |-> ok, json |-> json, message |-> message, token |-> token]

SignupResponses ==
    {FetchRejected,
     HttpResponse(TRUE, TRUE, NULL, NULL),
     HttpResponse(FALSE, TRUE, "User already exists.", NULL),
     HttpResponse(FALSE, FALSE, NULL, NULL)}

LoginResponses ==
    {FetchRejected,
     HttpResponse(TRUE, TRUE, NULL, "jwt-1"),
     HttpResponse(TRUE, TRUE, NULL, NULL),
     HttpResponse(TRUE, TRUE, NULL, ""),
     HttpResponse(TRUE, FALSE, NULL, NULL),
     HttpResponse(FALSE, TRUE, "Invalid credentials.", NULL),
     HttpResponse(FALSE, FALSE, NULL, NULL)}

IdleSubmit == [pc |-> "idle", mode |-> "login"]

NoFetch == [request |-> "none", resp |-> FetchRejected]

\* state?.from?.pathname || '/app'
redirectPath == IF Falsy(locationState) THEN "/app" ELSE locationState

\* errorBody?.message ?? fallback, where errorBody is null for a body that is
\* no JSON; a rejected fetch throws a TypeError with its own message.
ThrownMessage(resp, fallback) ==
    IF resp.rejected THEN "Failed to fetch"
    ELSE IF resp.json /\ resp.message # NULL THEN resp.message
    ELSE fallback

\* if (!signupResponse.ok) throw ...
SignupSucceededAlways(resp) == TRUE

SignupSucceeded(resp) == ~resp.rejected /\ resp.ok

\* The message handleSubmit throws for this login response; NULL when it
\* throws nothing.
LoginThrows(resp) ==
    IF resp.rejected \/ ~resp.ok
    THEN ThrownMessage(resp, "Failed to log in. Please try again.")
    ELSE IF ~resp.json THEN "Unexpected end of JSON input"
    ELSE IF Falsy(resp.token) THEN "The server did not return a login token."
    ELSE NULL

\* onClick of the toggle: setMode(...); setError(null)
ToggleMode ==
    /\ location = "/login"
    /\ mode' = IF mode = "login" THEN "signup" ELSE "login"
    /\ loginError' = NULL
    /\ UNCHANGED <<server, storage, isSubmitting, submit, fetched, nSubmits,
                   visualizerPage, textureEffect>>

\* handleSubmit up to its first fetch; the submit button is disabled while
\* isSubmitting.
Submit ==
    /\ location = "/login"
    /\ ~isSubmitting
    /\ nSubmits < MaxSubmits
    /\ nSubmits' = nSubmits + 1
    /\ loginError' = NULL
    /\ isSubmitting' = TRUE
    /\ submit' = [pc |-> IF mode = "signup" THEN "signup" ELSE "login", mode |-> mode]
    /\ UNCHANGED <<server, storage, mode, fetched, visualizerPage, textureEffect>>

\* The signup fetch ends.
SignupFetched ==
    /\ submit.pc = "signup"
    /\ \E resp \in SignupResponses :
        /\ fetched' = [request |-> "signup", resp |-> resp]
        /\ IF SignupSucceeded(resp)
           THEN /\ submit' = [submit EXCEPT !.pc = "login"]
                /\ UNCHANGED <<loginError, isSubmitting>>
           ELSE /\ loginError' = ThrownMessage(resp, "Failed to sign up. Please try again.")
                /\ isSubmitting' = FALSE
                /\ submit' = [submit EXCEPT !.pc = "idle"]
    /\ UNCHANGED <<server, storage, mode, nSubmits, visualizerPage, textureEffect>>

\* The login fetch ends.
LoginFetched ==
    /\ submit.pc = "login"
    /\ \E resp \in LoginResponses :
        /\ fetched' = [request |-> "login", resp |-> resp]
        /\ IF LoginThrows(resp) # NULL
           THEN /\ loginError' = LoginThrows(resp)
                /\ UNCHANGED storage
           ELSE /\ authToken' = resp.token
                /\ location' = redirectPath
                /\ UNCHANGED <<loginError, locationState>>
        /\ isSubmitting' = FALSE
        /\ submit' = [submit EXCEPT !.pc = "idle"]
    /\ UNCHANGED <<server, mode, nSubmits, visualizerPage, textureEffect>>

\* --------------------------------------------------------- VisualizerPage
\* BUILT_IN_PATTERNS, by id; 'none' is the one without a file.
BUILT_IN_PATTERNS == {"none", "cheetah", "leaf"}

\* id: `remote-${pattern.id}`
RemotePatternId(n) == IF n = 1 THEN "remote-1" ELSE "remote-2"

\* The bodies GET /api/patterns answers with: the ids of the user's uploads.
PatternListInputs == {{1}, {1, 2}}

PagePreset(id, patternId, isPublic, shareSlug) ==
    [id |-> id, patternId |-> patternId, isPublic |-> isPublic, shareSlug |-> shareSlug]

\* The body GET /api/presets answers with: the user saved one preset on a
\* built-in pattern and one, which is shared, on the first upload.
PresetListInput ==
    {PagePreset("p1", "cheetah", FALSE, NULL),
     PagePreset("p2", "remote-1", TRUE, "0a1b2c3d4e")}

\* The id of the preset that the save of handler run n creates.
CreatedPresetIds == <<"c1", "c2", "c3", "c4", "c5", "c6", "c7", "c8">>

\* response.status; 0 stands for a fetch that rejects, 200 for any 2xx.
ApiStatuses == {0, 200, 401, 403, 500}

\* response.status === 401 || response.status === 403
IsUnauthorizedOnly401(status) == status = 401

IsUnauthorized(status) == status \in {401, 403}

PresetActions == {"delete", "share", "unshare"}

Call(n, kind, id, patternId, select) ==
    [n |-> n, kind |-> kind, id |-> id, patternId |-> patternId, select |-> select]

NoAnswer == [call |-> Call(0, "none", NULL, NULL, NULL), hadToken |-> TRUE, status |-> 0]

\* The page is rendered; the setters of an unmounted page change nothing.
Mounted == location = "/app"

\* selectedPattern?.file: patterns.find(...) ?? BUILT_IN_PATTERNS[0]
SelectedHasFile == selectedPatternId \in pagePatterns /\ selectedPatternId # "none"

\* const token = getAuthToken(); if (!token) { handleUnauthorized(); return }
\* and then the handler up to its fetch; `busy` is what it stores in
\* activePresetAction (NULL: it does not use it).
StartCall(call, busy) ==
    /\ nCalls < MaxCalls
    /\ nCalls' = nCalls + 1
    /\ IF Falsy(authToken)
       THEN /\ handleLogout
            /\ answered' = [call |-> call, hadToken |-> FALSE, status |-> 0]
            /\ UNCHANGED <<calls, activePresetAction>>
       ELSE /\ calls' = calls \cup {call}
            /\ activePresetAction' = IF busy THEN call.id ELSE activePresetAction
            /\ UNCHANGED <<storage, answered>>
    /\ UNCHANGED <<server, loginPage, pagePatterns, selectedPatternId, pagePresets,
                   textureEffect>>

\* The fetch of `call` ended with `status`: what every handler does with a 401
\* or 403, and the record of the ended run.
EndCall(call, status) ==
    /\ calls' = calls \ {call}
    /\ answered' = [call |-> call, hadToken |-> TRUE, status |-> status]
    /\ IF IsUnauthorized(status) THEN handleLogout ELSE UNCHANGED storage
    /\ UNCHANGED <<server, loginPage, nCalls, textureEffect>>

\* onClick of a pattern button: setSelectedPatternId(pattern.id)
SelectPattern ==
    /\ Mounted
    /\ \E id \in pagePatterns : selectedPatternId' = id
    /\ UNCHANGED <<server, storage, loginPage, pagePatterns, pagePresets,
                   activePresetAction, calls, nCalls, answered, textureEffect>>

\* handleLoadPreset: setSelectedPatternId(preset.patternId)
LoadPreset ==
    /\ Mounted
    /\ \E preset \in pagePresets : selectedPatternId' = preset.patternId
    /\ UNCHANGED <<server, storage, loginPage, pagePatterns, pagePresets,
                   activePresetAction, calls, nCalls, answered, textureEffect>>

\* The Logout button.
Logout ==
    /\ Mounted
    /\ handleLogout
    /\ UNCHANGED <<server, loginPage, visualizerPage, textureEffect>>

\* Another tab of the application logs out: localStorage is shared.
StorageCleared ==
    /\ Mounted
    /\ ~Falsy(authToken)
    /\ authToken' = NULL
    /\ UNCHANGED <<server, location, locationState, loginPage, visualizerPage,
                   textureEffect>>

\* The fetch of a fetchPatterns ends: the one of the mount effect, or the one
\* handleFilesSelected awaits (select: the pattern it uploaded).
PatternsFetched ==
    \E call \in calls, status \in ApiStatuses, data \in PatternListInputs :
        /\ call.kind = "listPatterns"
        /\ status # 200 => data = {1}
        /\ EndCall(call, status)
        /\ LET nextPatterns == BUILT_IN_PATTERNS \cup {RemotePatternId(n) : n \in data}
           IN  IF status = 200 /\ Mounted
               THEN /\ pagePatterns' = nextPatterns
                    /\ selectedPatternId' =
                         IF ~Falsy(call.select) /\ call.select \in nextPatterns
                         THEN call.select
                         ELSE IF selectedPatternId \in nextPatterns
                         THEN selectedPatternId ELSE "none"
               ELSE UNCHANGED <<pagePatterns, selectedPatternId>>
        /\ UNCHANGED <<pagePresets, activePresetAction>>

\* The fetch of fetchPresets ends.
PresetsFetched ==
    \E call \in calls, status \in ApiStatuses :
        /\ call.kind = "listPresets"
        /\ EndCall(call, status)
        /\ pagePresets' = IF status = 200 /\ Mounted THEN PresetListInput ELSE pagePresets
        /\ UNCHANGED <<pagePatterns, selectedPatternId, activePresetAction>>

\* handleSavePreset up to its fetch; the button is disabled unless a pattern
\* with a file is selected and while a save is running.
SavePreset ==
    /\ Mounted
    /\ SelectedHasFile
    /\ \A c \in calls : c.kind # "save"
    /\ StartCall(Call(nCalls + 1, "save", NULL, selectedPatternId, NULL), FALSE)

\* The fetch of handleSavePreset ends: setPresets((prev) => [created, ...prev])
SaveFetched ==
    \E call \in calls, status \in ApiStatuses :
        /\ call.kind = "save"
        /\ EndCall(call, status)
        /\ pagePresets' =
             IF status = 200 /\ Mounted
             THEN pagePresets \cup
                    {PagePreset(CreatedPresetIds[call.n], call.patternId, FALSE, NULL)}
             ELSE pagePresets
        /\ UNCHANGED <<pagePatterns, selectedPatternId, activePresetAction>>

\* handleDeletePreset up to its fetch; the button of a preset is disabled
\* while activePresetAction is its id.
DeletePreset ==
    \E preset \in pagePresets :
        /\ Mounted
        /\ activePresetAction # preset.id
        /\ StartCall(Call(nCalls + 1, "delete", preset.id, NULL, NULL), TRUE)

\* handleSharePreset up to its fetch.
SharePreset ==
    \E preset \in pagePresets :
        /\ Mounted
        /\ activePresetAction # preset.id
        /\ StartCall(Call(nCalls + 1, "share", preset.id, NULL, NULL), TRUE)

\* handleUnsharePreset up to its fetch; only a public preset has the button.
UnsharePreset ==
    \E preset \in pagePresets :
        /\ Mounted
        /\ preset.isPublic
        /\ activePresetAction # preset.id
        /\ StartCall(Call(nCalls + 1, "unshare", preset.id, NULL, NULL), TRUE)

\* The preset list after the fetch of a delete, share or unshare was ok.
PresetsAfter(kind, id, P) ==
    IF kind = "delete" THEN {p \in P : p.id # id}
    ELSE IF kind = "share"
    THEN {IF p.id = id THEN [p EXCEPT !.isPublic = TRUE, !.shareSlug = "f9e8d7c6b5"] ELSE p :
            p \in P}
    ELSE {IF p.id = id THEN [p EXCEPT !.isPublic = FALSE] ELSE p : p \in P}

\* The fetch of a delete, share or unshare ends; `finally` resets
\* activePresetAction.
PresetActionFetched ==
    \E call \in calls, status \in ApiStatuses :
        /\ call.kind \in PresetActions
        /\ EndCall(call, status)
        /\ pagePresets' = IF status = 200 /\ Mounted
                          THEN PresetsAfter(call.kind, call.id, pagePresets)
                          ELSE pagePresets
        /\ activePresetAction' = IF Mounted THEN NULL ELSE activePresetAction
        /\ UNCHANGED <<pagePatterns, selectedPatternId>>

\* handleFilesSelected with one image file, up to its fetch; the button is
\* disabled while isUploading, that is until the fetchPatterns it awaits ends.
UploadPattern ==
    /\ Mounted
    /\ \A c \in calls : c.kind # "upload" /\ c.select = NULL
    /\ StartCall(Call(nCalls + 1, "upload", NULL, NULL, NULL), FALSE)

\* The fetch of the upload ends; after a 2xx the handler calls
\* fetchPatterns(lastUploadedPatternId), which reads the token again.
UploadFetched ==
    \E call \in calls, status \in ApiStatuses :
        LET refresh == Call(call.n, "listPatterns", NULL, NULL, RemotePatternId(2))
        IN  /\ call.kind = "upload"
            /\ IF status = 200 /\ ~Falsy(authToken)
               THEN /\ calls' = (calls \ {call}) \cup {refresh}
                    /\ answered' = [call |-> call, hadToken |-> TRUE, status |-> status]
                    /\ UNCHANGED storage
               ELSE IF status = 200
               THEN /\ calls' = calls \ {call}
                    /\ answered' = [call |-> refresh, hadToken |-> FALSE, status |-> 0]
                    /\ handleLogout
               ELSE /\ calls' = calls \ {call}
                    /\ answered' = [call |-> call, hadToken |-> TRUE, status |-> status]
                    /\ IF IsUnauthorized(status) THEN handleLogout ELSE UNCHANGED storage
            /\ UNCHANGED <<server, loginPage, nCalls, pagePatterns, selectedPatternId,
                           pagePresets, activePresetAction, textureEffect>>

\* --------------------------------------------------------- texture effect
\* useEffect(() => { ... loader.load(file, onLoad, undefined, onError) ...
\* return () => { cancelled = true } }, [selectedPattern]) of VisualizerPage,
\* SharedPresetPage and App: the same effect in each.
PatternFiles == {"/patterns/cheetah.jpg", "/patterns/leaf.jpg"}

NoTexture == 0

\* setTexture((prev) => { prev?.dispose(); return next })
SetTexture(next) ==
    /\ texture' = next
    /\ disposed' = disposed \cup ({texture} \ {NoTexture})

\* The selected pattern changes, or is a new object for the same file: the
\* cleanup of the effect's last run sets its `cancelled`, and the effect runs.
ChangePattern ==
    \E file \in PatternFiles \cup {NULL} :
        LET cleaned == IF selectedFile = NULL THEN loads
                       ELSE [loads EXCEPT ![Len(loads)].cancelled = TRUE]
        IN  /\ file = NULL => selectedFile # NULL
            /\ selectedFile' = file
            /\ IF file = NULL
               THEN SetTexture(NoTexture) /\ loads' = cleaned
               ELSE /\ Len(loads) < MaxLoads
                    /\ loads' = Append(cleaned, [file |-> file, cancelled |-> FALSE,
                                                 state |-> "pending"])
                    /\ UNCHANGED <<texture, disposed>>
            /\ UNCHANGED <<server, storage, loginPage, visualizerPage>>

\* onLoad of load n: if (cancelled) { loadedTexture.dispose(); return }
LoadSucceeds ==
    \E n \in DOMAIN loads :
        /\ loads[n].state = "pending"
        /\ loads' = [loads EXCEPT ![n].state = "loaded"]
        /\ IF loads[n].cancelled
           THEN disposed' = disposed \cup {n} /\ UNCHANGED texture
           ELSE SetTexture(n)
        /\ UNCHANGED <<server, storage, loginPage, visualizerPage, selectedFile>>

\* onError of load n: it does not read `cancelled`.
LoadFails ==
    \E n \in DOMAIN loads :
        /\ loads[n].state = "pending"
        /\ loads' = [loads EXCEPT ![n].state = "failed"]
        /\ SetTexture(NoTexture)
        /\ UNCHANGED <<server, storage, loginPage, visualizerPage, selectedFile>>

\* The parts of the browser application as they are when not in use.
LoginClosed ==
    /\ mode = "login"
    /\ isSubmitting = FALSE
    /\ loginError = NULL
    /\ submit = IdleSubmit
    /\ fetched = NoFetch
    /\ nSubmits = 0

VisualizerClosed ==
    /\ pagePatterns = BUILT_IN_PATTERNS
    /\ selectedPatternId = "none"
    /\ pagePresets = {}
    /\ activePresetAction = NULL
    /\ calls = {}
    /\ nCalls = 0
    /\ answered = NoAnswer

TextureClosed ==
    /\ selectedFile = NULL
    /\ texture = NoTexture
    /\ loads = <<>>
    /\ disposed = {}

BrowserClosed ==
    /\ authToken = NULL
    /\ location = "/"
    /\ locationState = NULL
    /\ LoginClosed
    /\ VisualizerClosed
    /\ TextureClosed

\* ------------------------------------------------------------ specification
\* The server starts on a database that earlier runs have filled: one or two
\* accounts exist already and their owners hold tokens.
InitialUser(email) ==
    [email |-> email, password_hash |-> BcryptHash("pw1", "saltA")]

InitialUsers ==
    { [u \in {1} |-> InitialUser("a@x")],
      [u \in {1, 2} |-> IF u = 1 THEN InitialUser("a@x") ELSE InitialUser("b@x")] }

\* No preset, or one that user 1 saved and never shared.
InitialPresets ==
    { [p \in {} |-> NewPresetRow(IdleReq, 0)],
      [p \in {1} |-> NewPresetRow([IdleReq EXCEPT !.uid = 1, !.name = "Cheetah Large",
                                                  !.patternId = "cheetah",
                                                  !.settings = DefaultSettings], 1)] }

Init ==
    /\ BrowserClosed
    /\ users \in InitialUsers
    /\ tokens = {JwtSign(u, users[u].email) : u \in DOMAIN users}
    /\ patterns = [n \in {} |-> [user_id |-> 0, filename |-> NoFilename,
                                  uploaded_at |-> 0]]
    /\ presets \in InitialPresets
    /\ nextPresetId = Cardinality(DOMAIN presets) + 1
    /\ files = {}
    /\ req = [r \in Reqs |-> IdleReq]
    /\ last = [rq |-> IdleReq, resp |-> NoResponse]
    /\ nOps = 0
    /\ sharedSlug = [p \in DOMAIN presets |-> NULL]
    /\ created = {}
    /\ signedUp = {}
    /\ deleted = [p \in {} |-> NULL]
    /\ submitted = [p \in DOMAIN presets |->
                      [patternId |-> presets[p].pattern_id, settings |-> DefaultSettings]]

Step(r) ==
    \/ Signup(r) \/ SignupInsert(r)
    \/ Login(r)
    \/ Upload(r) \/ UploadInsert(r) \/ ListPatterns(r)
    \/ Create(r) \/ ListPresets(r)
    \/ Get(r)
    \/ Delete(r)
    \/ Share(r) \/ SlugCheck(r) \/ ShareUpdate(r)
    \/ Unshare(r)
    \/ Resolve(r) \/ ResolvePattern(r)

Next == \E r \in Reqs : Step(r)

Spec == Init /\ [][Next]_vars

\* One request at a time: each request is answered before the next arrives.
Alone(r) == \A q \in Reqs \ {r} : ~Busy(q)

NextSeq ==
    \E r \in Reqs :
        \/ Alone(r) /\ Signup(r)
        \/ Alone(r) /\ SignupInsert(r)
        \/ Alone(r) /\ Login(r)
        \/ Alone(r) /\ Upload(r)
        \/ Alone(r) /\ UploadInsert(r)
        \/ Alone(r) /\ Create(r)
        \/ Alone(r) /\ Get(r)
        \/ Alone(r) /\ Delete(r)
        \/ Alone(r) /\ Share(r)
        \/ Alone(r) /\ SlugCheck(r)
        \/ Alone(r) /\ ShareUpdate(r)
        \/ Alone(r) /\ Unshare(r)
        \/ Alone(r) /\ Resolve(r)
        \/ Alone(r) /\ ResolvePattern(r)
        \/ Alone(r) /\ ListPatterns(r)
        \/ Alone(r) /\ ListPresets(r)

SpecSeq == Init /\ [][NextSeq]_vars

\* The server starts on a library that earlier runs have filled: user 2 has
\* uploaded a pattern, user 1 has saved a preset on a pattern "remote-1" and
\* user 2 one on a built-in pattern; no preset has been shared.
LibraryPreset(uid, patternId, now) ==
    NewPresetRow([IdleReq EXCEPT !.uid = uid, !.name = "Cheetah Large",
                                 !.patternId = patternId,
                                 !.settings = DefaultSettings], now)

InitLibrary ==
    /\ BrowserClosed
    /\ users = [u \in {1, 2} |-> IF u = 1 THEN InitialUser("a@x") ELSE InitialUser("b@x")]
    /\ tokens = {JwtSign(u, users[u].email) : u \in DOMAIN users}
    /\ files = {StoredFilename(1, "swatch")}
    /\ patterns = [n \in {1} |-> [user_id |-> 2, filename |-> StoredFilename(1, "swatch"),
                                   uploaded_at |-> 1]]
    /\ presets = [p \in {1, 2} |-> IF p = 1 THEN LibraryPreset(1, "remote-1", 1)
                                              ELSE LibraryPreset(2, "cheetah", 2)]
    /\ nextPresetId = 3
    /\ req = [r \in Reqs |-> IdleReq]
    /\ last = [rq |-> IdleReq, resp |-> NoResponse]
    /\ nOps = 0
    /\ sharedSlug = [p \in DOMAIN presets |-> NULL]
    /\ created = {}
    /\ signedUp = {}
    /\ deleted = [p \in {} |-> NULL]
    /\ submitted = [p \in DOMAIN presets |->
                      [patternId |-> presets[p].pattern_id, settings |-> DefaultSettings]]

\* The requests on the library: no account is created and no one logs in.
NextLibrary ==
    \E r \in Reqs :
        \/ Upload(r)
        \/ UploadInsert(r)
        \/ ListPatterns(r)
        \/ Create(r)
        \/ ListPresets(r)
        \/ Get(r)
        \/ Delete(r)
        \/ Share(r)
        \/ SlugCheck(r)
        \/ ShareUpdate(r)
        \/ Unshare(r)
        \/ Resolve(r)
        \/ ResolvePattern(r)

SpecLibrary == InitLibrary /\ [][NextLibrary]_vars

\* The server as the browser specifications leave it: no request is running.
ServerAtRest ==
    /\ users = [u \in {1} |-> InitialUser("a@x")]
    /\ tokens = {JwtSign(1, "a@x")}
    /\ patterns = [n \in {} |-> [user_id |-> 0, filename |-> NoFilename,
                                  uploaded_at |-> 0]]
    /\ presets = [p \in {} |-> NewPresetRow(IdleReq, 0)]
    /\ nextPresetId = 1
    /\ files = {}
    /\ req = [r \in Reqs |-> IdleReq]
    /\ last = [rq |-> IdleReq, resp |-> NoResponse]
    /\ nOps = 0
    /\ sharedSlug = [p \in {} |-> NULL]
    /\ created = {}
    /\ signedUp = {}
    /\ deleted = [p \in {} |-> NULL]
    /\ submitted = [p \in {} |-> [patternId |-> NULL, settings |-> DefaultSettings]]

\* The login page: opened by hand or by RequireAuth, which passes the path it
\* guarded; its mount effect has left the page if a token was stored.
InitLogin ==
    /\ ServerAtRest
    /\ authToken \in {NULL, "jwt-0"}
    /\ locationState \in {NULL, "/app/library"}
    /\ location = IF Falsy(authToken) THEN "/login" ELSE redirectPath
    /\ LoginClosed
    /\ VisualizerClosed
    /\ TextureClosed

NextLogin ==
    \/ ToggleMode
    \/ Submit
    \/ SignupFetched
    \/ LoginFetched

SpecLogin == InitLogin /\ [][NextLogin]_vars

\* The visualizer page after its first render: RequireAuth found a token, and
\* the two mount effects have started fetchPatterns and fetchPresets.
InitVisualizer ==
    /\ ServerAtRest
    /\ authToken = "jwt-1"
    /\ location = "/app"
    /\ locationState = NULL
    /\ LoginClosed
    /\ pagePatterns = BUILT_IN_PATTERNS
    /\ selectedPatternId = "none"
    /\ pagePresets = {}
    /\ activePresetAction = NULL
    /\ calls = {Call(1, "listPatterns", NULL, NULL, NULL),
                Call(2, "listPresets", NULL, NULL, NULL)}
    /\ nCalls = 2
    /\ answered = NoAnswer
    /\ TextureClosed

NextVisualizer ==
    \/ SelectPattern
    \/ LoadPreset
    \/ Logout
    \/ StorageCleared
    \/ PatternsFetched
    \/ PresetsFetched
    \/ SavePreset
    \/ SaveFetched
    \/ DeletePreset
    \/ SharePreset
    \/ UnsharePreset
    \/ PresetActionFetched
    \/ UploadPattern
    \/ UploadFetched

SpecVisualizer == InitVisualizer /\ [][NextVisualizer]_vars

\* The texture effect after the first render, with no pattern selected.
InitTexture ==
    /\ ServerAtRest
    /\ authToken = NULL
    /\ location = "/"
    /\ locationState = NULL
    /\ LoginClosed
    /\ VisualizerClosed
    /\ TextureClosed

NextTexture ==
    \/ ChangePattern
    \/ LoadSucceeds
    \/ LoadFails

SpecTexture == InitTexture /\ [][NextTexture]_vars

\* ------------------------------------------------------------- properties
\* This step received a request and answered it at once: last' is that
\* request and its answer, and the unprimed tables are what its statement read.
ArrivedAndAnswered == nOps' = nOps + 1 /\ req' = req

\* This step received a request whose handler goes on in slot r.
ArrivedAndContinues(r) == nOps' = nOps + 1 /\ ~Busy(r) /\ req'[r].pc # "idle"

\* This step ran the last statement of the handler in slot r: last' is its answer.
Finished(r) == Busy(r) /\ req'[r].pc = "idle"

Authenticated(rq) == rq.uid # 0

IsOwner(P, id, uid) == id \in DOMAIN P /\ P[id].user_id = uid

\* C1: with requests served one at a time, a share by the owner that arrives
\* after a share of the same preset was answered 200 with slug s (an unshare
\* may lie between them) is answered 200 with shareSlug = s; the owner's first
\* share is answered 200 too, unless all five slugs it drew were taken (500).
C1_ShareTwiceSameSlug ==
    (last.rq.kind = "share" /\ last.rq.own) =>
        IF last.rq.seenSlug # NULL
        THEN last.resp.status = 200 /\ last.resp.shareSlug = last.rq.seenSlug
        ELSE \/ last.resp.status = 200 /\ last.resp.shareSlug \in Slugs
             \/ last.resp.status = 500 /\ last.rq.attempt = MaxSlugAttempts

\* C1 witness: a share answered 200 with the slug of an earlier share, on a
\* preset that was unshared in between.
C1_Witness ==
    /\ last.rq.kind = "share"
    /\ last.rq.seenSlug # NULL
    /\ ~last.rq.seenPublic
    /\ last.resp.status = 200
    /\ last.resp.shareSlug = last.rq.seenSlug

\* Some public row holds the slug.
PublicWithSlug(P, slug) ==
    \E p \in DOMAIN P : P[p].share_slug # NULL /\ P[p].share_slug = slug /\ P[p].is_public

\* C2: GET /api/share/:slug is answered 200 exactly when a row with that
\* share_slug is public, and otherwise with the one 404 body, whether no row
\* has the slug or the row is private; a NULL share_slug matches no slug.
C2_ResolveIffPublic ==
    [][ /\ (ArrivedAndAnswered /\ last'.rq.kind = "resolve") =>
             /\ last'.resp.status = 200 <=> PublicWithSlug(presets, last'.rq.slug)
             /\ ~PublicWithSlug(presets, last'.rq.slug) => last'.resp = SharedNotFound
        /\ \A r \in Reqs :
             /\ (ArrivedAndContinues(r) /\ req'[r].kind = "resolve") =>
                    PublicWithSlug(presets, req'[r].slug)
             /\ (Finished(r) /\ req[r].kind = "resolve") => last'.resp.status = 200
      ]_vars

\* C2 witness: a slug whose preset was unshared is answered 404.
C2_Witness ==
    /\ last.rq.kind = "resolve"
    /\ last.resp = SharedNotFound
    /\ \E p \in DOMAIN presets :
         presets[p].share_slug = last.rq.slug /\ ~presets[p].is_public

\* What each handler answers for an id that no row has.
MissingIdAnswer(kind, P, uid) ==
    CASE kind = "get" -> GetResult(P, MissingId, uid)
      [] kind = "delete" -> DeleteResult(P, MissingId, uid).resp
      [] kind = "unshare" -> UnshareResult(P, MissingId, uid).resp
      [] kind = "share" -> ShareSelectResult(P, MissingId, uid)

OnPresetKinds == {"get", "delete", "share", "unshare"}

\* C3: get, delete, share and unshare by an authenticated user who does not
\* own the preset are answered at their first statement, with 404 and the body
\* a missing id gets, and leave the presets table as it was.
C3_NotOwnedIsNotFound ==
    [][ /\ (/\ ArrivedAndAnswered
            /\ last'.rq.kind \in OnPresetKinds
            /\ Authenticated(last'.rq)
            /\ last'.rq.id \in DOMAIN presets
            /\ ~IsOwner(presets, last'.rq.id, last'.rq.uid)) =>
               /\ last'.resp.status = 404
               /\ last'.resp = MissingIdAnswer(last'.rq.kind, presets, last'.rq.uid)
               /\ presets' = presets
        /\ \A r \in Reqs :
             (ArrivedAndContinues(r) /\ req'[r].kind \in OnPresetKinds) =>
                 IsOwner(presets, req'[r].id, req'[r].uid)
      ]_vars

\* C3 witness: an unshare by another user of a public preset was answered 404
\* and the preset is still public.
C3_Witness ==
    /\ last.rq.kind = "unshare"
    /\ Authenticated(last.rq)
    /\ last.resp.status = 404
    /\ last.rq.id \in DOMAIN presets
    /\ ~IsOwner(presets, last.rq.id, last.rq.uid)
    /\ presets[last.rq.id].is_public

\* C4: an authenticated upload of a file that is no image is answered 400.
C4_NonImageUploadIs400 ==
    (/\ last.rq.kind = "upload"
     /\ Authenticated(last.rq)
     /\ last.rq.mimetype # NULL
     /\ ~IsImage(last.rq.mimetype)) => last.resp.status = 400

\* C5: no two preset rows hold the same share_slug.
C5_ShareSlugUnique ==
    \A p, q \in DOMAIN presets :
        (p # q /\ presets[p].share_slug # NULL) =>
            presets[p].share_slug # presets[q].share_slug

\* C5 witness: two shares of different presets drew the same slug; the second
\* UPDATE was refused and its request answered 500.
C5_Witness ==
    /\ last.rq.kind = "share"
    /\ last.rq.pc = "share_update"
    /\ last.resp.status = 500
    /\ last.rq.id \in DOMAIN presets
    /\ \E p \in DOMAIN presets \ {last.rq.id} : presets[p].share_slug = last.rq.slug

\* C6: a public preset has a share_slug; a new row is private with no slug;
\* only the UPDATE of a share that is answered 200 makes a row public.
C6_PublicHasSlug ==
    /\ [](\A p \in DOMAIN presets : presets[p].is_public => presets[p].share_slug # NULL)
    /\ [][ \A p \in DOMAIN presets' :
             /\ p \notin DOMAIN presets =>
                    ~presets'[p].is_public /\ presets'[p].share_slug = NULL
             /\ (p \in DOMAIN presets /\ ~presets[p].is_public /\ presets'[p].is_public) =>
                    /\ \E r \in Reqs : Finished(r) /\ req[r].pc = "share_update"
                                                  /\ req[r].id = p
                    /\ last'.rq.kind = "share"
                    /\ last'.resp.status = 200
          ]_vars

\* C6 witness: a share was answered 200 and its preset is public, with a slug.
C6_Witness ==
    /\ last.rq.kind = "share"
    /\ last.resp.status = 200
    /\ last.rq.id \in DOMAIN presets
    /\ presets[last.rq.id].is_public
    /\ presets[last.rq.id].share_slug = last.resp.shareSlug

\* C7: once a preset's share_slug is set, it never changes while the row exists.
C7_SlugAssignedOnce ==
    [][ \A p \in DOMAIN presets \cap DOMAIN presets' :
            presets[p].share_slug # NULL =>
                presets'[p].share_slug = presets[p].share_slug ]_vars

\* C8: a signup that arrives after a signup with the same email was answered
\* 201 is answered 409 (400 by the validation, if it brings no password), and
\* it adds no row to users.
C8_SecondSignupConflicts ==
    /\ []((last.rq.kind = "signup" /\ last.rq.afterCreated) =>
             last.resp.status = IF Falsy(last.rq.password) THEN 400 ELSE 409)
    /\ [][ /\ (ArrivedAndAnswered /\ last'.rq.kind = "signup" /\ last'.rq.afterCreated) =>
                 users' = users
            /\ \A r \in Reqs :
                 ~(ArrivedAndContinues(r) /\ req'[r].kind = "signup"
                                           /\ req'[r].afterCreated)
          ]_vars

\* C8 witness: a second signup with a registered email and a password was
\* answered 409.
C8_Witness ==
    /\ last.rq.kind = "signup"
    /\ last.rq.afterCreated
    /\ ~Falsy(last.rq.password)
    /\ last.resp.status = 409

\* C9: no two users rows have the same email, and every signup that passes
\* the validation is answered 201 or 409.
C9_SignupRace ==
    /\ \A u, v \in DOMAIN users : u # v => users[u].email # users[v].email
    /\ (last.rq.kind = "signup" /\ ~Falsy(last.rq.email) /\ ~Falsy(last.rq.password)) =>
            last.resp.status \in {201, 409}

\* Every answer the login handler gives, on the users table as it is, to a
\* login that fails on its email or on its password.
FailedLoginAnswers ==
    LET rows == UNION {FirstRows(SelectUsersByEmail(users, e)) : e \in Emails}
        answers == {LoginResult(users, row, pw) : row \in rows, pw \in Passwords}
    IN  {a \in answers : a.status # 200}

\* C10: a login answered 401 carries no token, changes no table, and its
\* response is the one that every failing login gets, whether the email is
\* unknown or the password wrong.
C10_LoginFailuresAlike ==
    /\ []((last.rq.kind = "login" /\ last.resp.status = 401) =>
             /\ last.resp.token = NoToken
             /\ \A a \in FailedLoginAnswers : a = last.resp)
    /\ [][ (ArrivedAndAnswered /\ last'.rq.kind = "login" /\ last'.resp.status # 200) =>
               /\ tokens' = tokens
               /\ <<users, patterns, presets, files>>' = <<users, patterns, presets, files>>
               /\ (~Falsy(last'.rq.email) /\ ~Falsy(last'.rq.password)) =>
                      last'.resp.status = 401
          ]_vars

\* C10 witness: a login with a known email and a wrong password was answered
\* 401 while another email is unknown.
C10_Witness ==
    /\ last.rq.kind = "login"
    /\ last.resp.status = 401
    /\ SelectUsersByEmail(users, last.rq.email) # {}
    /\ \E e \in Emails : SelectUsersByEmail(users, e) = {}

\* C11: a login with the email and password of a signup that was answered 201
\* with id i is answered 200 with a token whose userId is i; every token the
\* server has issued for that email carries userId i, and a request that
\* carries such a token runs as user i: the preset it creates is owned by i.
C11_SignupThenLogin ==
    /\ [](\A s \in signedUp :
            /\ (/\ last.rq.kind = "login"
                /\ last.rq.email = s.email
                /\ last.rq.password = s.password) =>
                    last.resp.status = 200 /\ last.resp.token.userId = s.id
            /\ \A t \in tokens : t.email = s.email => t.userId = s.id)
    /\ [][ \A t \in tokens :
             (/\ ArrivedAndAnswered
              /\ last'.rq.kind = "create"
              /\ last'.rq.uid = t.userId
              /\ last'.resp.status = 201) =>
                 presets'[last'.resp.preset.id].user_id = t.userId
          ]_vars

\* C11 witness: a login with the credentials of a signup of this run was
\* answered 200 with a token for the id that the signup returned.
C11_Witness ==
    /\ last.rq.kind = "login"
    /\ last.resp.status = 200
    /\ \E s \in signedUp :
         /\ last.rq.email = s.email
         /\ last.rq.password = s.password
         /\ last.resp.token.userId = s.id

\* The endpoints behind authenticateToken.
ProtectedKinds ==
    {"upload", "listPatterns", "create", "listPresets", "get", "delete", "share",
     "unshare"}

\* C12: on every protected endpoint a request with no header, or with a header
\* that has no second part, is answered 401, and one whose token is malformed,
\* wrongly signed or expired is answered 403; such a request is answered on
\* arrival and changes no table and no file; any other request is answered
\* neither 401 nor 403 and runs as the user whose id its token embeds.
C12_AuthGate ==
    /\ [](last.rq.kind \in ProtectedKinds =>
            LET hdr == last.rq.hdr
                good == hdr.token.key = JWT_SECRET /\ ~hdr.token.expired
            IN  /\ hdr.parts < 2 => last.resp.status = 401
                /\ (hdr.parts = 2 /\ ~good) => last.resp.status = 403
                /\ (hdr.parts = 2 /\ good) =>
                       /\ last.resp.status \notin {401, 403}
                       /\ last.rq.uid = hdr.token.userId)
    /\ [][ /\ (/\ ArrivedAndAnswered
                /\ last'.rq.kind \in ProtectedKinds
                /\ last'.resp.status \in {401, 403}) => db' = db /\ tokens' = tokens
            /\ \A r \in Reqs :
                 (ArrivedAndContinues(r) /\ req'[r].kind \in ProtectedKinds) =>
                     /\ req'[r].hdr.parts = 2
                     /\ req'[r].hdr.token \in tokens
                     /\ req'[r].uid = req'[r].hdr.token.userId
          ]_vars

\* C12 witness: a delete of an existing preset that carried its owner's
\* expired token was answered 403, and the preset is still there.
C12_Witness ==
    /\ last.rq.kind = "delete"
    /\ last.rq.hdr = BearerHeader(ExpiredToken)
    /\ last.resp.status = 403
    /\ \E p \in DOMAIN presets : presets[p].user_id = ExpiredToken.userId

\* Empty, or white space only.
Blank(s) == s \in {"", "   "}

\* The body of a create request is one the claim calls rejected.
RejectedBody(rq) ==
    \/ rq.nameType # "string" \/ Blank(rq.name)
    \/ rq.patternIdType # "string" \/ Blank(rq.patternId)
    \/ rq.settings.type # "object"

\* C13: an authenticated create whose name or patternId is no string, is empty
\* or is white space only, or whose settings is missing, null, no object or an
\* array, is answered 400 and inserts no row; any other is answered 201 with
\* the record of the one row it inserts, which is owned by the caller, private
\* and without a slug.
C13_CreateValidation ==
    /\ []((last.rq.kind = "create" /\ Authenticated(last.rq)) =>
             last.resp.status = IF RejectedBody(last.rq) THEN 400 ELSE 201)
    /\ [][ (/\ ArrivedAndAnswered
            /\ last'.rq.kind = "create"
            /\ Authenticated(last'.rq)) =>
               IF RejectedBody(last'.rq)
               THEN presets' = presets
               ELSE \E id \in DOMAIN presets' \ DOMAIN presets :
                      /\ DOMAIN presets' = DOMAIN presets \cup {id}
                      /\ \A p \in DOMAIN presets : presets'[p] = presets[p]
                      /\ presets'[id].user_id = last'.rq.uid
                      /\ ~presets'[id].is_public
                      /\ presets'[id].share_slug = NULL
                      /\ last'.resp.preset = mapPresetRow(id, presets'[id])
          ]_vars

\* C13 witness: a create whose name is white space only was answered 400.
C13_Witness ==
    /\ last.rq.kind = "create"
    /\ Authenticated(last.rq)
    /\ last.rq.nameType = "string"
    /\ last.rq.name = "   "
    /\ last.resp.status = 400

\* C14: a delete by the owner of an existing preset is answered 200 and removes
\* that row and no other, and with it the only row that held its share_slug;
\* every get, delete, share and unshare of that id that arrives later is
\* answered 404 at its first statement and changes no row; and a resolve of the
\* slug the preset had is answered 404 (as long as no later share has given
\* the same slug to another preset).
C14_DeleteThenNotFound ==
    [][ /\ (ArrivedAndAnswered /\ last'.rq.kind = "delete" /\ last'.rq.own) =>
             LET id == last'.rq.id
             IN  /\ last'.resp.status = 200
                 /\ DOMAIN presets' = DOMAIN presets \ {id}
                 /\ \A p \in DOMAIN presets' : presets'[p] = presets[p]
                 /\ SlugRows(presets', presets[id].share_slug) = {}
        /\ (/\ ArrivedAndAnswered
            /\ last'.rq.kind \in OnPresetKinds
            /\ Authenticated(last'.rq)
            /\ last'.rq.id \in DOMAIN deleted) =>
               last'.resp.status = 404 /\ presets' = presets
        /\ (/\ ArrivedAndAnswered
            /\ last'.rq.kind = "resolve"
            /\ \E d \in DOMAIN deleted : deleted[d] = last'.rq.slug
            /\ SlugRows(presets, last'.rq.slug) = {}) => last'.resp.status = 404
        /\ \A r \in Reqs :
             /\ (ArrivedAndContinues(r) /\ req'[r].kind \in OnPresetKinds) =>
                    req'[r].id \notin DOMAIN deleted
             /\ (ArrivedAndContinues(r) /\ req'[r].kind = "resolve") =>
                    SlugRows(presets, req'[r].slug) # {}
      ]_vars

\* C14 witness: a resolve of the slug of a deleted preset was answered 404.
C14_Witness ==
    /\ last.rq.kind = "resolve"
    /\ last.rq.slug # NULL
    /\ last.resp.status = 404
    /\ \E d \in DOMAIN deleted : deleted[d] = last.rq.slug

\* Some private row holds the slug.
PrivateWithSlug(P, slug) ==
    \E p \in DOMAIN P : P[p].share_slug # NULL /\ P[p].share_slug = slug /\ ~P[p].is_public

\* C15: an unshare by the owner is answered 200; an unshare answered 200 sets
\* is_public of the caller's preset to false and changes nothing else, the
\* share_slug included; a private preset stays private until a share of it is
\* answered 200, and while it is private a resolve of its slug is answered 404.
C15_UnshareKeepsSlug ==
    [][ /\ (ArrivedAndAnswered /\ last'.rq.kind = "unshare") =>
             /\ last'.rq.own => last'.resp.status = 200
             /\ last'.resp.status = 200 =>
                   /\ IsOwner(presets, last'.rq.id, last'.rq.uid)
                   /\ presets' = [presets EXCEPT ![last'.rq.id].is_public = FALSE]
        /\ \A p \in DOMAIN presets \cap DOMAIN presets' :
             (~presets[p].is_public /\ presets'[p].is_public) =>
                 /\ last'.rq.kind = "share"
                 /\ last'.rq.id = p
                 /\ last'.resp.status = 200
        /\ (/\ ArrivedAndAnswered
            /\ last'.rq.kind = "resolve"
            /\ PrivateWithSlug(presets, last'.rq.slug)) => last'.resp.status = 404
        /\ \A r \in Reqs :
             (ArrivedAndContinues(r) /\ req'[r].kind = "resolve") =>
                 ~PrivateWithSlug(presets, req'[r].slug)
      ]_vars

\* C15 witness: an unshare was answered 200 and its preset is private and
\* still has the slug that its share returned.
C15_Witness ==
    /\ last.rq.kind = "unshare"
    /\ last.resp.status = 200
    /\ last.rq.seenPublic
    /\ last.rq.id \in DOMAIN presets
    /\ ~presets[last.rq.id].is_public
    /\ presets[last.rq.id].share_slug # NULL
    /\ presets[last.rq.id].share_slug = last.rq.seenSlug

\* Two settings values are the same value: the same kind and, for an object,
\* the same members, in whatever order.
JsonEqual(a, b) ==
    /\ a.type = b.type
    /\ Len(a.members) = Len(b.members)
    /\ {a.members[i] : i \in DOMAIN a.members} = {b.members[i] : i \in DOMAIN b.members}

RemoteId(patternId) ==
    CASE patternId = "remote-1" -> 1
      [] patternId = "remote-2" -> 2
      [] OTHER -> 0

\* The patternUrl the claim gives a preset with this patternId: the file of
\* pattern n for "remote-<n>" if that row exists, and null otherwise.
ClaimedPatternUrl(patternId) ==
    IF RemoteId(patternId) \in DOMAIN patterns
    THEN patterns[RemoteId(patternId)].filename
    ELSE NoFilename

ListsExactly(list, ids) ==
    /\ Len(list) = Cardinality(ids)
    /\ {list[i].id : i \in DOMAIN list} = ids

\* C18: the preset list and the pattern list that an authenticated user gets
\* hold exactly the rows whose user_id is that user, each once and as stored,
\* with the row created (uploaded) last first.
C18_ListsOwnedNewestFirst ==
    [][ /\ (ArrivedAndAnswered /\ last'.rq.kind = "listPresets"
                               /\ Authenticated(last'.rq)) =>
             LET list == last'.resp.list
             IN  /\ last'.resp.status = 200
                 /\ ListsExactly(list, {p \in DOMAIN presets :
                                          presets[p].user_id = last'.rq.uid})
                 /\ \A i \in DOMAIN list : list[i] = mapPresetRow(list[i].id,
                                                                  presets[list[i].id])
                 /\ \A i, j \in DOMAIN list :
                        i < j => list[i].createdAt > list[j].createdAt
        /\ (ArrivedAndAnswered /\ last'.rq.kind = "listPatterns"
                               /\ Authenticated(last'.rq)) =>
             LET list == last'.resp.list
             IN  /\ last'.resp.status = 200
                 /\ ListsExactly(list, {n \in DOMAIN patterns :
                                          patterns[n].user_id = last'.rq.uid})
                 /\ \A i \in DOMAIN list :
                        /\ list[i].filename = patterns[list[i].id].filename
                        /\ list[i].uploadedAt = patterns[list[i].id].uploaded_at
                 /\ \A i, j \in DOMAIN list :
                        i < j => list[i].uploadedAt > list[j].uploadedAt
      ]_vars

\* C18 witness: a user who has saved two presets, while another user has one,
\* got the list of the two.
C18_Witness ==
    /\ last.rq.kind = "listPresets"
    /\ last.resp.status = 200
    /\ Len(last.resp.list) = 2
    /\ \E p \in DOMAIN presets : presets[p].user_id # last.rq.uid

\* C19: a step changes no owner, name, patternId, settings or createdAt of a
\* preset, and it changes is_public or share_slug of a preset only when it
\* answers an unshare, or runs the UPDATE of a share, that the owner of the
\* preset sent for it.
C19_PresetImmutable ==
    [][ \A p \in DOMAIN presets \cap DOMAIN presets' :
          /\ presets'[p].user_id = presets[p].user_id
          /\ presets'[p].name = presets[p].name
          /\ presets'[p].pattern_id = presets[p].pattern_id
          /\ presets'[p].settings = presets[p].settings
          /\ presets'[p].created_at = presets[p].created_at
          /\ presets'[p] # presets[p] =>
                /\ last'.rq.id = p
                /\ last'.rq.uid = presets[p].user_id
                /\ \/ ArrivedAndAnswered /\ last'.rq.kind = "unshare"
                   \/ \E r \in Reqs : Finished(r) /\ req[r].kind = "share" /\ req[r].id = p
      ]_vars

\* C19 witness: the first share of a preset was answered 200, and the row has
\* its owner and the patternId and settings of its create request.
C19_Witness ==
    /\ last.rq.kind = "share"
    /\ last.resp.status = 200
    /\ last.rq.seenSlug = NULL
    /\ last.rq.id \in DOMAIN presets
    /\ presets[last.rq.id].user_id = last.rq.uid
    /\ presets[last.rq.id].pattern_id = submitted[last.rq.id].patternId
    /\ JsonEqual(presets[last.rq.id].settings, submitted[last.rq.id].settings)
    /\ presets[last.rq.id].share_slug = last.resp.shareSlug

\* C20: a share whose UPDATE runs after a delete of the same preset has been
\* answered ends as a share that ran wholly before the delete (200) or wholly
\* after it (404): it is never answered 500.
C20_ShareDeleteAtomic ==
    [][ \A r \in Reqs :
          (/\ Finished(r)
           /\ req[r].kind = "share"
           /\ req[r].pc = "share_update"
           /\ req[r].id \in DOMAIN deleted) => last'.resp.status \in {200, 404}
      ]_vars

\* C21: a share of a preset without a slug draws at most five slugs and looks
\* each up among the share_slugs; a draw that no row holds ends the drawing and
\* is the slug of the UPDATE, a draw that a row holds is followed by another
\* draw while fewer than five were made, and the fifth such draw ends the
\* request with 500 and leaves every preset as it was: the preset of the
\* request, unless another request has shared it meanwhile, is private and has
\* no slug.
C21_SlugDrawsBounded ==
    [][ \A r \in Reqs :
          /\ req'[r].attempt <= MaxSlugAttempts
          /\ (ArrivedAndContinues(r) /\ req'[r].pc = "slug_check") =>
                /\ req'[r].attempt = 0
                /\ presets[req'[r].id].share_slug = NULL
          /\ (req[r].pc = "slug_check" /\ req'[r] # req[r]) =>
                /\ presets' = presets
                /\ \/ /\ req'[r].pc = "share_update"
                      /\ req'[r].attempt = req[r].attempt
                      /\ SlugRows(presets, req'[r].slug) = {}
                   \/ /\ req'[r].pc = "slug_check"
                      /\ req'[r].attempt = req[r].attempt + 1
                      /\ req'[r].attempt < MaxSlugAttempts
                      /\ \E slug \in Slugs : SlugRows(presets, slug) # {}
                   \/ /\ Finished(r)
                      /\ last'.resp = ShareFailed
                      /\ last'.rq.attempt = MaxSlugAttempts
                      /\ req[r].attempt = MaxSlugAttempts - 1
                      /\ \E slug \in Slugs : SlugRows(presets, slug) # {}
                      /\ (req[r].id \in DOMAIN presets /\ sharedSlug[req[r].id] = NULL) =>
                            /\ presets'[req[r].id].is_public = FALSE
                            /\ presets'[req[r].id].share_slug = NULL
          /\ (Finished(r) /\ req[r].pc = "share_update" /\ last'.resp.status = 200) =>
                presets'[req[r].id].share_slug = req[r].slug
      ]_vars

\* C21 witness: a share drew five slugs that rows held and was answered 500;
\* its preset is private and has no slug.
C21_Witness ==
    /\ last.rq.kind = "share"
    /\ last.resp = ShareFailed
    /\ last.rq.attempt = MaxSlugAttempts
    /\ last.rq.id \in DOMAIN presets
    /\ presets[last.rq.id].is_public = FALSE
    /\ presets[last.rq.id].share_slug = NULL

\* The share in slot r drew its slug and is about to run its UPDATE.
DrewSlug(r) ==
    /\ req[r].kind = "share"
    /\ req[r].pc = "share_update"
    /\ req[r].seenSlug = NULL
    /\ req[r].id \in DOMAIN presets

\* C22: when two shares of different presets without a slug have both drawn
\* the same slug and no row holds it yet, the UPDATE that runs first succeeds
\* (200, its preset public with the slug, the other preset untouched); an
\* UPDATE that runs while another row holds its slug is refused: the request is
\* answered 500, no preset changes, and its preset, unless another request has
\* shared it meanwhile, is private and has no slug.
C22_SlugRace ==
    [][ \A r \in Reqs :
          /\ \A q \in Reqs \ {r} :
                (/\ DrewSlug(r) /\ DrewSlug(q)
                 /\ req[r].slug = req[q].slug
                 /\ req[r].id # req[q].id
                 /\ SlugRows(presets, req[r].slug) = {}
                 /\ Finished(r)) =>
                    /\ last'.resp.status = 200
                    /\ last'.resp.shareSlug = req[r].slug
                    /\ presets'[req[r].id].is_public
                    /\ presets'[req[r].id].share_slug = req[r].slug
                    /\ presets'[req[q].id] = presets[req[q].id]
                    /\ DrewSlug(q)'
          /\ (/\ DrewSlug(r)
              /\ SlugRows(presets, req[r].slug) \ {req[r].id} # {}
              /\ Finished(r)) =>
                    /\ last'.resp = ShareFailed
                    /\ presets' = presets
                    /\ sharedSlug[req[r].id] = NULL =>
                          /\ presets'[req[r].id].is_public = FALSE
                          /\ presets'[req[r].id].share_slug = NULL
      ]_vars

\* C22 witness: of two shares that drew the same slug the first made its preset
\* public with it; the second was answered 500 and its preset is private and
\* has no slug.
C22_Witness ==
    /\ last.rq.kind = "share"
    /\ last.rq.pc = "share_update"
    /\ last.rq.seenSlug = NULL
    /\ last.resp = ShareFailed
    /\ last.rq.id \in DOMAIN presets
    /\ presets[last.rq.id].is_public = FALSE
    /\ presets[last.rq.id].share_slug = NULL
    /\ \E p \in DOMAIN presets \ {last.rq.id} :
          /\ presets[p].is_public
          /\ presets[p].share_slug = last.rq.slug
          /\ sharedSlug[p] = last.rq.slug

\* The stored files that no row names and no running upload is about to insert.
OrphanedFiles ==
    {f \in files : /\ \A n \in DOMAIN patterns : patterns[n].filename # f
                   /\ \A r \in Reqs : ~(req[r].pc = "upload_insert" /\ req[r].filename = f)}

\* The filenames an answer carries: those of a pattern list, the one of an
\* upload, and the one in the patternUrl of a resolve.
AnsweredFilenames(resp) ==
    {resp.list[i].filename : i \in {j \in DOMAIN resp.list : resp.status = 200}}
        \cup ({resp.filename, resp.patternUrl} \ {NoFilename})

C24_PatternUrlOfOwner ==
    [][ \A r \in Reqs :
          (/\ Finished(r)
           /\ req[r].kind = "resolve"
           /\ last'.resp.status = 200
           /\ last'.resp.patternUrl # NoFilename) =>
              \A p \in SlugRows(presets, req[r].slug) :
                  \E n \in DOMAIN patterns :
                      /\ patterns[n].filename = last'.resp.patternUrl
                      /\ patterns[n].user_id = presets[p].user_id
      ]_vars

\* C25: an upload that authenticateToken answers with 401 or 403 is answered
\* on arrival, whatever file it carries: it stores no file and inserts no
\* pattern row, then or later. An upload that goes on to store its file and
\* insert its row carries a token the server signed.
C25_UploadAuthFirst ==
    /\ [](\A r \in Reqs : req[r].kind = "upload" => AuthStatus(req[r].hdr) = 0)
    /\ [](last.rq.kind = "upload" =>
            (last.resp.status \in {401, 403} <=> AuthStatus(last.rq.hdr) # 0))
    /\ [][ (/\ nOps' = nOps + 1
            /\ last'.rq.kind = "upload"
            /\ last' # last
            /\ last'.resp.status \in {401, 403}) =>
               /\ ArrivedAndAnswered
               /\ files' = files
               /\ patterns' = patterns
         ]_vars

\* C25 witness: an upload that carried an image file and an expired token was
\* answered 403; no file is stored and there is no pattern row.
C25_Witness ==
    /\ last.rq.kind = "upload"
    /\ last.rq.mimetype = "image/png"
    /\ last.rq.hdr = BearerHeader(ExpiredToken)
    /\ last.resp.status = 403
    /\ files = {}
    /\ DOMAIN patterns = {}

\* C26: while a delete, share or unshare of a preset waits for its fetch, the
\* page holds the id of that preset in activePresetAction, which is what
\* disables the preset's Delete, Share and Unshare buttons.
C26_ButtonsDisabledInFlight ==
    Mounted => \A c \in calls : c.kind \in PresetActions => activePresetAction = c.id

\* The texture the claim expects once no load is pending: the one of the load
\* that the effect's last run started, if it succeeded.
ExpectedTexture ==
    IF selectedFile = NULL THEN NoTexture
    ELSE IF loads[Len(loads)].state = "loaded" THEN Len(loads)
    ELSE NoTexture

\* C27: a load that succeeds after the cleanup of its effect has its texture
\* disposed at once and the current texture stays as it was; a disposed
\* texture is never the current one; and when no load is pending the current
\* texture is the one loaded for the selected pattern's file, or none if the
\* pattern has no file or that load failed.
C27_TextureFollowsSelection ==
    /\ [](texture # NoTexture => texture \notin disposed)
    /\ []((\A n \in DOMAIN loads : loads[n].state # "pending") =>
             texture = ExpectedTexture)
    /\ [][ \A n \in DOMAIN loads :
             (/\ loads[n].state = "pending"
              /\ loads[n].cancelled
              /\ loads'[n].state = "loaded") =>
                 n \in disposed' /\ texture' = texture /\ texture' # n
         ]_vars

\* C28: on the visualizer page selectedPatternId is the id of an entry of the
\* page's patterns list.
C28_SelectedInPatterns ==
    Mounted => selectedPatternId \in pagePatterns

\* C29: a handler of the visualizer page that finds no stored token, or whose
\* fetch is answered 401 or 403, clears the stored token and navigates to
\* /login, and the page's patterns and presets lists stay as they were.
C29_UnauthorizedLogsOut ==
    [][ (/\ answered' # answered
         /\ ~answered'.hadToken \/ answered'.status \in {401, 403}) =>
            /\ authToken' = NULL
            /\ location' = "/login"
            /\ pagePatterns' = pagePatterns
            /\ pagePresets' = pagePresets
      ]_vars

\* C29 witness: the share of a preset was answered 403; the token is gone,
\* the application is at /login and the preset is listed as before.
C29_Witness ==
    /\ answered.call.kind = "share"
    /\ answered.status = 403
    /\ authToken = NULL
    /\ location = "/login"
    /\ \E preset \in pagePresets : preset.id = answered.call.id /\ ~preset.isPublic

\* The login response is one that handleSubmit accepts.
LoginAccepted(resp) ==
    ~resp.rejected /\ resp.ok /\ resp.json /\ ~Falsy(resp.token)

\* C30: a form submitted in signup mode sends its login request only in the
\* step in which its signup request was answered ok; the stored token and the
\* location change only in the step in which a login request is answered ok
\* with a token, which stores that token and navigates to the redirect path;
\* a submission that ends in any other way leaves the token and the location
\* as they were and sets an error message; and whenever a submission ends
\* isSubmitting is false again.
C30_LoginFlow ==
    /\ [](isSubmitting <=> submit.pc # "idle")
    /\ [][ /\ (submit'.pc = "login" /\ submit.pc # "login" /\ submit'.mode = "signup") =>
                 /\ submit.pc = "signup"
                 /\ fetched'.request = "signup"
                 /\ ~fetched'.resp.rejected /\ fetched'.resp.ok
           /\ (authToken' # authToken \/ location' # location) =>
                 /\ submit.pc = "login"
                 /\ fetched'.request = "login"
                 /\ LoginAccepted(fetched'.resp)
                 /\ authToken' = fetched'.resp.token
                 /\ location' = redirectPath
           /\ (submit.pc # "idle" /\ submit'.pc = "idle") =>
                 /\ isSubmitting' = FALSE
                 /\ ~(submit.pc = "login" /\ LoginAccepted(fetched'.resp)) =>
                       /\ authToken' = authToken
                       /\ location' = location
                       /\ loginError' \notin {NULL, ""}
         ]_vars

\* C30 witness: a form submitted in signup mode had its signup answered ok and
\* its login refused; no token is stored, the page shows the server's message
\* and can be submitted again.
C30_Witness ==
    /\ submit = [pc |-> "idle", mode |-> "signup"]
    /\ fetched.request = "login"
    /\ ~fetched.resp.ok
    /\ loginError = "Invalid credentials."
    /\ ~isSubmitting
    /\ authToken = NULL
    /\ location = "/login"

====
